---- MODULE Spec2Model ----
(***************************************************************************)
(* TinyReAct (src/agent.py): the reason / act / observe loop of one agent  *)
(* instance.  Text is a sequence of tokens; the string operations the code *)
(* uses (in, split, strip, startswith, f-strings, str) are computed on     *)
(* those sequences.  The model client is the only input: each call returns *)
(* a text, returns nothing (None or ""), or raises.                        *)
(***************************************************************************)
EXTENDS Integers, Sequences, FiniteSets, TLC

\* ------------------------------------------------------------------ bounds
\* Largest iteration ceiling a constructed agent is given.
MaxTtl == 3
\* Model calls explored in one query (the loop itself has no such limit).
MaxCalls == 4

\* ------------------------------------------------------- strings as tokens
IsSpace(t) == t \in {" ", "\n"}

RECURSIVE LStrip(_)
LStrip(s) == IF s # <<>> /\ IsSpace(Head(s)) THEN LStrip(Tail(s)) ELSE s

RECURSIVE RStrip(_)
RStrip(s) ==
  IF s # <<>> /\ IsSpace(s[Len(s)]) THEN RStrip(SubSeq(s, 1, Len(s) - 1)) ELSE s

\* str.strip()
Strip(s) == RStrip(LStrip(s))

\* `tok in s`
Contains(s, tok) == \E i \in 1..Len(s) : s[i] = tok

\* s.startswith(tok)
StartsWith(s, tok) == Len(s) > 0 /\ s[1] = tok

\* s.split(sep): the pieces between the separators, in order; a text without
\* the separator is one piece.
RECURSIVE Split(_, _)
Split(s, sep) ==
  IF ~Contains(s, sep)
  THEN <<s>>
  ELSE LET i == CHOOSE k \in 1..Len(s) :
                  s[k] = sep /\ \A j \in 1..(k - 1) : s[j] # sep
       IN <<SubSeq(s, 1, i - 1)>> \o Split(SubSeq(s, i + 1, Len(s)), sep)

\* Decimal digits, for str(int) and for the integer literals eval reads.
DigitChars == <<"0", "1", "2", "3", "4", "5", "6", "7", "8", "9">>

IsDigit(t) == \E i \in 1..10 : DigitChars[i] = t

DigitVal(t) == (CHOOSE i \in 1..10 : DigitChars[i] = t) - 1

\* str(n) of an int
RECURSIVE Str(_)
Str(n) ==
  IF n < 0 THEN <<"-">> \o Str(0 - n)
  ELSE IF n < 10 THEN <<DigitChars[n + 1]>>
  ELSE Str(n \div 10) \o <<DigitChars[(n % 10) + 1]>>

\* the value of a decimal literal
RECURSIVE IntOf(_)
IntOf(ds) ==
  IF Len(ds) = 1 THEN DigitVal(ds[1])
  ELSE IntOf(SubSeq(ds, 1, Len(ds) - 1)) * 10 + DigitVal(ds[Len(ds)])

\* A decimal literal Python accepts: digits, no leading zero.
IsIntLiteral(ds) ==
  /\ Len(ds) >= 1
  /\ \A i \in 1..Len(ds) : IsDigit(ds[i])
  /\ (Len(ds) > 1 => ds[1] # "0")

\* response.text of a response without text parts
NoneValue == <<"<None>">>

\* ------------------------------------------------------------------- state
VARIABLES
  messages,     \* self.messages: the conversation log, a sequence of turns
  iteration,    \* self.iteration
  ttl,          \* self.ttl
  tools,        \* self.tools: the names of the registered capabilities
  pc,           \* where query() is: "idle", "loop", "returned", "raised"
  outcome,      \* the return statement the last iterate() left by
  observation,  \* what the last act() returned
  calls,        \* model calls made in this query
  dispatched,   \* act() calls made in this query
  invoked,      \* the capabilities eval() has run, in order
  history,      \* the model client's responses in this query, in order
  last_call     \* function_call: the text the last iterate() handed to act()

vars == <<messages, iteration, ttl, tools, pc, outcome, observation, calls,
          dispatched, invoked, history, last_call>>

\* The tool list main() builds (the arithmetic part of it).
ToolList == <<"add_numbers", "subtract_numbers", "multiply_numbers", "divide_numbers">>

\* The functions eval() can resolve: the module's globals.
GlobalFunctions == {"add_numbers", "subtract_numbers", "multiply_numbers",
                    "divide_numbers"}

Queries == {<<"What is 10 * 3 + 10?">>}

\* self.instruction_prompt: the template with one block per tool.
RECURSIVE ToolPrompt(_)
ToolPrompt(tls) ==
  IF tls = <<>> THEN <<>>
  ELSE <<"\n", "\n", Head(tls), "(signature)", "docstring">> \o ToolPrompt(Tail(tls))

InstructionPrompt(tls) == <<"# TOOLS">> \o ToolPrompt(tls) \o <<"# RULES">>

Init ==
  /\ messages = <<>>
  /\ iteration = 0
  /\ ttl \in 0..MaxTtl
  /\ tools = ToolList
  /\ pc = "idle"
  /\ outcome = "none"
  /\ observation = <<>>
  /\ calls = 0
  /\ dispatched = 0
  /\ invoked = <<>>
  /\ history = <<>>
  /\ last_call = <<>>

\* query(): the first message, then the loop.
FirstMessage(tls, q) ==
  [role |-> "user",
   text |-> InstructionPrompt(tls) \o <<"\n", "\n", "#THINKING TRACE", "\n", "\n",
                                        "Query", ":", " ">> \o q \o <<"\n">>]

Query ==
  /\ pc = "idle"
  /\ \E q \in Queries : messages' = <<FirstMessage(tools, q)>>
  /\ pc' = "loop"
  /\ UNCHANGED <<iteration, ttl, tools, outcome, observation, calls, dispatched,
                 invoked, history, last_call>>

\* ------------------------------------------------------------ model client
\* What one generate_content call can do: return a text, return a response
\* with no text (None, or the empty string), or raise.
Text(t) == [kind |-> "text", text |-> t]
Raise(e) == [kind |-> "raise", text |-> e]

RespMultiply ==
  Text(<<"Thought", "1", ":", " ", "First multiply.", "\n",
         "Action", "1", ":", " ", "multiply_numbers", "(", "1", "0", ",", " ", "3", ")">>)
RespAdd ==
  Text(<<"Action", "2", ":", " ", "add_numbers", "(", "3", "0", ",", " ", "1", "0", ")">>)
RespAnswer == Text(<<"Answer", ":", " ", "4", "0">>)
RespUnknown == Text(<<"Action", "1", ":", " ", "unknown_tool", "(", "5", ")">>)
RespDivideByZero ==
  Text(<<"Action", "1", ":", " ", "divide_numbers", "(", "1", ",", " ", "0", ")">>)
RespMissingArgument == Text(<<"Action", "1", ":", " ", "add_numbers", "(", "1", ")">>)
RespThoughtOnly == Text(<<"Thought", "1", ":", " ", "Let me think.">>)
RespMentionsAction ==
  Text(<<"Thought", "1", ":", " ", "The next ", "Action", " is unclear.">>)
RespActionNoColon == Text(<<"Action", "1", " ", "add_numbers", "(", "1", ",", "2", ")">>)
RespMentionsAnswer ==
  Text(<<"Thought", "1", ":", " ", "The ", "Answer", " needs a product.", "\n",
         "Action", "1", ":", " ", "multiply_numbers", "(", "1", "0", ",", " ", "3", ")">>)
RespIndentedAction ==
  Text(<<"Thought", "1", ":", " ", "Add them.", "\n",
         " ", "Action", "1", ":", " ", "add_numbers", "(", "1", ",", " ", "2", ")">>)
RespTwoActions ==
  Text(<<"Action", "1", ":", " ", "subtract_numbers", "(", "9", ",", " ", "4", ")", "\n",
         "Action", "2", ":", " ", "add_numbers", "(", "1", ",", " ", "2", ")">>)
RespColonArgument ==
  Text(<<"Action", "1", ":", " ", "add_numbers", "(", "\"10", ":", "00\"", ",", " ", "3", ")">>)
RespNestedCall ==
  Text(<<"Action", "1", ":", " ", "add_numbers", "(", "abs", "(", "5", ")", ",", " ", "2", ")">>)
RespEmpty == Text(<<>>)
RespNone == Text(NoneValue)
RaiseQuota == Raise(<<"429 quota exceeded">>)

ModelResponses ==
  {RespMultiply, RespAdd, RespAnswer, RespUnknown, RespDivideByZero,
   RespMissingArgument, RespThoughtOnly, RespMentionsAction, RespActionNoColon,
   RespMentionsAnswer, RespIndentedAction, RespTwoActions, RespColonArgument,
   RespNestedCall,
   RespEmpty, RespNone, RaiseQuota}

\* ------------------------------------------------------------------ reason
\* reason(): the model's text, appended to the log as a model turn; when the
\* call raises, the error message, with nothing appended.
ErrorMessage(e) == <<"Error calling Gemini API", ":", " ">> \o e

\* Mutant of Reason: the model's text is not appended to the log.
ReasonNoAppend(msgs, resp) ==
  IF resp.kind = "raise"
  THEN [reasoning |-> ErrorMessage(resp.text), messages |-> msgs]
  ELSE [reasoning |-> resp.text, messages |-> msgs]

Reason(msgs, resp) ==
  IF resp.kind = "raise"
  THEN [reasoning |-> ErrorMessage(resp.text), messages |-> msgs]
  ELSE [reasoning |-> resp.text,
        messages |-> Append(msgs, [role |-> "model", text |-> resp.text])]

\* --------------------------------------------------------------------- act
\* The capabilities' bodies.  Each takes two positional parameters;
\* divide_numbers returns a float.
Ok(t, ran) == [raised |-> FALSE, text |-> t, invoked |-> ran]
Raised(t, ran) == [raised |-> TRUE, text |-> t, invoked |-> ran]

\* The builtins eval() can resolve besides the module's globals (one of them).
Builtins == {"abs"}

\* A result text that is a float: divide_numbers' results and what follows
\* from them.
IsFloatText(t) == Contains(t, ".") \/ t = <<"(float)">>

\* the int a result text stands for
IntValue(t) == IF Head(t) = "-" THEN 0 - IntOf(Tail(t)) ELSE IntOf(t)

Call(name, args) ==
  IF name \in Builtins
  THEN IF Len(args) # 1
       THEN Raised(<<name, "()", " takes exactly one argument">>, <<>>)
       ELSE Ok(Str(IF args[1] < 0 THEN 0 - args[1] ELSE args[1]), <<name>>)
  ELSE IF Len(args) # 2
  THEN Raised(<<name, "()", " takes 2 positional arguments">>, <<>>)
  ELSE CASE name = "add_numbers" -> Ok(Str(args[1] + args[2]), <<name>>)
         [] name = "subtract_numbers" -> Ok(Str(args[1] - args[2]), <<name>>)
         [] name = "multiply_numbers" -> Ok(Str(args[1] * args[2]), <<name>>)
         [] name = "divide_numbers" ->
              IF args[2] = 0 THEN Raised(<<"division by zero">>, <<name>>)
              ELSE IF args[1] % args[2] = 0
                   THEN Ok(Str(args[1] \div args[2]) \o <<".", "0">>, <<name>>)
                   ELSE Ok(Str(args[1] \div args[2]) \o <<".", "(fraction)">>, <<name>>)

\* The call on argument values given as result texts: on ints, Call; with a
\* float among them the result is some float, and dividing by 0.0 raises.
Apply(name, argTexts) ==
  IF \A i \in 1..Len(argTexts) : ~IsFloatText(argTexts[i])
  THEN Call(name, [i \in 1..Len(argTexts) |-> IntValue(argTexts[i])])
  ELSE IF Len(argTexts) # (IF name \in Builtins THEN 1 ELSE 2)
  THEN Call(name, [i \in 1..Len(argTexts) |-> 0])
  ELSE IF name = "divide_numbers" /\ argTexts[2] \in {<<"0">>, <<"0", ".", "0">>}
  THEN Raised(<<"division by zero">>, <<name>>)
  ELSE Ok(<<"(float)">>, <<name>>)

\* The nesting depth after the first k tokens of s.
Depth(s, k) ==
  Cardinality({j \in 1..k : s[j] = "("}) - Cardinality({j \in 1..k : s[j] = ")"})

\* The pieces of s between the commas that are outside every parenthesis.
RECURSIVE SplitTop(_)
SplitTop(s) ==
  IF ~\E k \in 1..Len(s) : s[k] = "," /\ Depth(s, k) = 0
  THEN <<s>>
  ELSE LET i == CHOOSE k \in 1..Len(s) :
                  /\ s[k] = "," /\ Depth(s, k) = 0
                  /\ \A j \in 1..(k - 1) : ~(s[j] = "," /\ Depth(s, j) = 0)
       IN <<SubSeq(s, 1, i - 1)>> \o SplitTop(SubSeq(s, i + 1, Len(s)))

\* The parts of a call expression name(arguments): its name and the texts of
\* its arguments.
CallName(e) ==
  LET p == CHOOSE k \in 1..Len(e) : e[k] = "(" /\ \A j \in 1..(k - 1) : e[j] # "("
  IN Strip(SubSeq(e, 1, p - 1))

CallArguments(e) ==
  LET p == CHOOSE k \in 1..Len(e) : e[k] = "(" /\ \A j \in 1..(k - 1) : e[j] # "("
      inner == SubSeq(e, p + 1, Len(e) - 1)
  IN IF Strip(inner) = <<>> THEN <<>> ELSE SplitTop(inner)

\* The expressions eval() compiles here: an integer literal, or a call of a
\* name on such expressions.  Anything else is a syntax error, raised before
\* any of it runs.
RECURSIVE Compiles(_)
Compiles(expr) ==
  LET e == Strip(expr)
  IN \/ IsIntLiteral(e)
     \/ /\ Contains(e, "(")
        /\ e[Len(e)] = ")"
        /\ Len(CallName(e)) = 1
        /\ \A k \in 1..(Len(e) - 1) : Depth(e, k) >= (IF Contains(SubSeq(e, 1, k), "(") THEN 1 ELSE 0)
        /\ Depth(e, Len(e)) = 0
        /\ \A i \in 1..Len(CallArguments(e)) : Compiles(CallArguments(e)[i])

\* What the calls of a sequence of results ran, in order.
RECURSIVE Ran(_)
Ran(rs) == IF rs = <<>> THEN <<>> ELSE Head(rs).invoked \o Ran(Tail(rs))

\* The results up to and including the first that raised: evaluation stops
\* there.
UpToFirstRaised(rs) ==
  IF \A i \in 1..Len(rs) : ~rs[i].raised THEN rs
  ELSE SubSeq(rs, 1, CHOOSE i \in 1..Len(rs) :
                       rs[i].raised /\ \A j \in 1..(i - 1) : ~rs[j].raised)

\* The call of name once its arguments have been evaluated to rs: an
\* argument's exception is the expression's, otherwise the call is made.
CallOn(name, rs) ==
  IF rs # <<>> /\ rs[Len(rs)].raised
  THEN Raised(rs[Len(rs)].text, Ran(rs))
  ELSE [raised |-> Apply(name, [i \in 1..Len(rs) |-> rs[i].text]).raised,
        text |-> Apply(name, [i \in 1..Len(rs) |-> rs[i].text]).text,
        invoked |-> Ran(rs) \o Apply(name, [i \in 1..Len(rs) |-> rs[i].text]).invoked]

\* The value of a compiled expression: the name is looked up, then the
\* arguments are evaluated left to right, nested calls included, then the
\* call is made.
RECURSIVE Evaluate(_)
Evaluate(expr) ==
  IF IsIntLiteral(Strip(expr)) THEN Ok(Strip(expr), <<>>)
  ELSE IF CallName(Strip(expr))[1] \notin GlobalFunctions \cup Builtins
  THEN Raised(<<"name '", CallName(Strip(expr))[1], "' is not defined">>, <<>>)
  ELSE CallOn(CallName(Strip(expr))[1],
              UpToFirstRaised([i \in 1..Len(CallArguments(Strip(expr))) |->
                                 Evaluate(CallArguments(Strip(expr))[i])]))

\* eval(function_call): the expression is compiled, then evaluated with the
\* module's globals and the builtins in scope.
Eval(function_call) ==
  IF ~Compiles(function_call)
  THEN Raised(<<"invalid syntax">>, <<>>)
  ELSE Evaluate(function_call)

\* function_call.split('(')[0].strip()
FunctionName(function_call) == Strip(Split(function_call, "(")[1])

\* function_name in [func.__name__ for func in self.tools]
InTools(function_name, tls) ==
  Len(function_name) = 1 /\ \E i \in 1..Len(tls) : tls[i] = function_name[1]

\* Mutant of NotAvailable: the message does not say which function.
NotAvailableUnnamed(function_name) ==
  <<"\n", "Error", ":", " ", "Function", " ", "is not in the list of available tools">>

NotAvailable(function_name) ==
  <<"\n", "Error", ":", " ", "Function", " ", "'">> \o function_name
    \o <<"'", " ", "is not in the list of available tools">>

Observation(it, result) == <<"Observation">> \o Str(it) \o <<":", " ">> \o result

\* Mutant of CannotExecute: the underlying error is left out.
CannotExecuteNoCause(function_call, e) ==
  <<"\n", "Error", ":", " ", "Cannot execute function", " ">> \o function_call

CannotExecute(function_call, e) ==
  <<"\n", "Error", ":", " ", "Cannot execute function", " ">> \o function_call
    \o <<":", " ">> \o e

\* act(): what it returns, the log after it, and the capabilities it ran.
Act(function_call, msgs, it, tls) ==
  IF ~InTools(FunctionName(function_call), tls)
  THEN [observation |-> NotAvailable(FunctionName(function_call)),
        messages |-> msgs,
        invoked |-> <<>>]
  ELSE LET r == Eval(function_call)
           obs == IF r.raised THEN CannotExecute(function_call, r.text)
                  ELSE Observation(it, r.text)
       IN [observation |-> obs,
           messages |-> Append(msgs, [role |-> "user", text |-> obs]),
           invoked |-> r.invoked]

\* ----------------------------------------------------------------- iterate
\* Mutant of TtlReached: the check is off by one.
TtlReachedOffByOne(it, t) == it > t

\* self.iteration >= self.ttl
TtlReached(it, t) == it >= t

\* Mutant of Falsy: `reasoning is None`.
FalsyNoneOnly(reasoning) == reasoning = NoneValue

\* `not reasoning`: None and the empty string
Falsy(reasoning) == reasoning = NoneValue \/ reasoning = <<>>

\* "Answer" in reasoning
HasAnswer(reasoning) == Contains(reasoning, "Answer")

\* "Action" in reasoning
HasAction(reasoning) == Contains(reasoning, "Action")

\* [line.strip() for line in lines if line.startswith("Action")]
RECURSIVE StrippedActionLines(_)
StrippedActionLines(lines) ==
  IF lines = <<>> THEN <<>>
  ELSE (IF StartsWith(Head(lines), "Action") THEN <<Strip(Head(lines))>> ELSE <<>>)
         \o StrippedActionLines(Tail(lines))

ActionLines(reasoning) == StrippedActionLines(Split(reasoning, "\n"))

\* Mutant of Increment: the counter is left alone.
IncrementNot(it) == it

\* self.iteration += 1
Increment(it) == it + 1

\* The step of iterate() after the budget check, on the client's response:
\* the return statement it leaves by (or the IndexError it raises), whether
\* the loop goes on, and the fields and log it leaves.
Step(msgs, it, tls, resp) ==
  LET r == Reason(msgs, resp)
      stay == [outcome |-> "none", continue_loop |-> FALSE, raised |-> FALSE,
               messages |-> r.messages, iteration |-> it, observation |-> <<>>,
               dispatched |-> 0, invoked |-> <<>>, function_call |-> <<>>]
  IN IF Falsy(r.reasoning)
     THEN [stay EXCEPT !.outcome = "no_response"]
     ELSE IF HasAnswer(r.reasoning)
     THEN [stay EXCEPT !.outcome = "answer"]
     ELSE IF HasAction(r.reasoning)
     THEN LET lines == ActionLines(r.reasoning)
              fields == IF lines = <<>> THEN <<>> ELSE Split(lines[1], ":")
          IN IF lines = <<>> \/ Len(fields) < 2
             THEN [stay EXCEPT !.outcome = "IndexError", !.raised = TRUE,
                               !.iteration = Increment(it)]
             ELSE LET a == Act(Strip(fields[2]), r.messages, Increment(it), tls)
                  IN [stay EXCEPT !.outcome = "action", !.continue_loop = TRUE,
                                  !.messages = a.messages,
                                  !.iteration = Increment(it),
                                  !.observation = a.observation,
                                  !.dispatched = 1,
                                  !.invoked = a.invoked,
                                  !.function_call = Strip(fields[2])]
     ELSE [stay EXCEPT !.outcome = "not_found", !.continue_loop = TRUE]

\* message_history() strips every model turn's text: None has no strip().
HistoryRaises(msgs) ==
  \E i \in 1..Len(msgs) : msgs[i].role = "model" /\ msgs[i].text = NoneValue

\* query() after an iterate() that ended the loop: return the history.
Return(msgs) == IF HistoryRaises(msgs) THEN "raised" ELSE "returned"

\* iterate() when the budget is used up: the loop ends, no model call.
IterateTerminate ==
  /\ pc = "loop"
  /\ TtlReached(iteration, ttl)
  /\ outcome' = "terminate"
  /\ pc' = Return(messages)
  /\ UNCHANGED <<messages, iteration, ttl, tools, observation, calls, dispatched,
                 invoked, history, last_call>>

\* iterate() with a model call that ends as resp.
IterateReason(resp) ==
  /\ pc = "loop"
  /\ ~TtlReached(iteration, ttl)
  /\ calls < MaxCalls
  /\ LET s == Step(messages, iteration, tools, resp)
     IN /\ messages' = s.messages
        /\ iteration' = s.iteration
        /\ outcome' = s.outcome
        /\ observation' = s.observation
        /\ dispatched' = dispatched + s.dispatched
        /\ invoked' = invoked \o s.invoked
        /\ last_call' = s.function_call
        /\ pc' = IF s.raised THEN "raised"
                 ELSE IF s.continue_loop THEN "loop"
                 ELSE Return(s.messages)
  /\ calls' = calls + 1
  /\ history' = Append(history, resp)
  /\ UNCHANGED <<ttl, tools>>

\* The controller's state, in the specification's names.
LoopState ==
  CASE pc = "idle" -> "IDLE"
    [] pc = "loop" -> "RUNNING"
    [] outcome = "terminate" -> "BUDGET_EXHAUSTED"
    [] outcome = "no_response" -> "MODEL_ERROR"
    [] outcome = "answer" -> "ANSWERED"
    [] OTHER -> "RAISED"

Next ==
  \/ Query
  \/ IterateTerminate
  \/ \E resp \in ModelResponses : IterateReason(resp)

Spec == Init /\ [][Next]_vars

\* ------------------------------------------------------- reading the state
LastOf(xs) == xs[Len(xs)]

\* The number of turns of a role in a log.
RECURSIVE Turns(_, _)
Turns(msgs, role) ==
  IF msgs = <<>> THEN 0
  ELSE (IF Head(msgs).role = role THEN 1 ELSE 0) + Turns(Tail(msgs), role)

\* part occurs in text, as consecutive tokens
Mentions(text, part) ==
  \E i \in 1..(Len(text) - Len(part) + 1) : SubSeq(text, i, i + Len(part) - 1) = part

\* The text has a line whose trimmed form starts with tok.
HasLine(text, tok) ==
  LET lines == Split(text, "\n")
  IN \E i \in 1..Len(lines) : StartsWith(Strip(lines[i]), tok)

\* The step just taken called the model, which ended as the last entry of
\* history'.
ModelStep == calls' = calls + 1

\* ------------------------------------------------------------------ claims

\* C1: a query makes at most ttl + 1 model calls, whatever the model returns
\* (so a model that only emits malformed output ends in BUDGET_EXHAUSTED).
C1_AtMostTtlPlusOneCalls == calls <= ttl + 1

\* C2: a model call that raises moves the controller at once to MODEL_ERROR
\* with iteration unchanged, and after it the query makes no model call and
\* no dispatch.
C2_FailedCallEndsQuery ==
  /\ [][(ModelStep /\ LastOf(history').kind = "raise")
          => (LoopState' = "MODEL_ERROR" /\ iteration' = iteration)]_vars
  /\ [][(history # <<>> /\ LastOf(history).kind = "raise")
          => (calls' = calls /\ dispatched' = dispatched)]_vars

\* C3: every call of the dispatcher appends exactly one observation to the
\* log, as a new user turn holding what the dispatcher returns.
C3_OneObservationPerDispatch ==
  [][dispatched' = dispatched + 1
       => /\ Turns(messages', "user") = Turns(messages, "user") + 1
          /\ LastOf(messages') = [role |-> "user", text |-> observation']]_vars

\* C4: iteration never decreases and never exceeds ttl.
C4_IterationBounded ==
  /\ [](iteration <= ttl)
  /\ [][iteration' >= iteration]_vars

\* C4 witness: the budget has been used up by dispatched actions.
C4_Witness == ttl = MaxTtl /\ iteration = ttl /\ dispatched = ttl

\* The response is one iterate() hands to act(): a text without the word
\* Answer whose first line starting with Action has a colon.
DispatchedAction(resp) ==
  /\ resp.kind = "text"
  /\ ~Falsy(resp.text)
  /\ ~Contains(resp.text, "Answer")
  /\ ActionLines(resp.text) # <<>>
  /\ Len(Split(ActionLines(resp.text)[1], ":")) >= 2

\* The raw invocation text of such a response.
Invocation(resp) == Strip(Split(ActionLines(resp.text)[1], ":")[2])

IsError(obs) == Mentions(obs, <<"Error", ":">>)

\* C5: an action step naming a capability that is not registered runs no
\* capability, returns an error observation that names it, adds one to
\* iteration and leaves the loop running.
C5_UnknownCapabilityStep ==
  [][(dispatched' = dispatched + 1
        /\ ~InTools(FunctionName(Invocation(LastOf(history'))), tools))
       => /\ invoked' = invoked
          /\ IsError(observation')
          /\ Mentions(observation', FunctionName(Invocation(LastOf(history'))))
          /\ iteration' = iteration + 1
          /\ pc' = "loop"]_vars

\* C5 witness: unknown_tool(5) was dispatched and named in the observation.
C5_Witness ==
  /\ history # <<>>
  /\ LastOf(history) = RespUnknown
  /\ outcome = "action"
  /\ Mentions(observation, <<"'", "unknown_tool", "'">>)
  /\ iteration = 1
  /\ pc = "loop"

\* C6: when a registered capability raises, the dispatcher returns an error
\* observation naming the call and the error, appends it to the log after
\* the model's turn, iteration has gone up by one and the loop goes on.
C6_CapabilityFailureIsObservation ==
  [][(dispatched' = dispatched + 1
        /\ InTools(FunctionName(Invocation(LastOf(history'))), tools)
        /\ Eval(Invocation(LastOf(history'))).raised)
       => /\ IsError(observation')
          /\ Mentions(observation', Invocation(LastOf(history')))
          /\ Mentions(observation', Eval(Invocation(LastOf(history'))).text)
          /\ messages' = messages \o <<[role |-> "model", text |-> LastOf(history').text],
                                       [role |-> "user", text |-> observation']>>
          /\ iteration' = iteration + 1
          /\ pc' = "loop"]_vars

\* C6 witness: divide_numbers(1, 0) raised and its error is the last turn.
C6_Witness ==
  /\ history # <<>>
  /\ LastOf(history) = RespDivideByZero
  /\ Mentions(observation, <<"division by zero">>)
  /\ LastOf(messages) = [role |-> "user", text |-> observation]
  /\ pc = "loop"

\* A malformed response in the specification's sense: a text that is not
\* empty and has no line whose trimmed form starts with Answer or Action.
Malformed(resp) ==
  /\ resp.kind = "text"
  /\ ~Falsy(resp.text)
  /\ ~HasLine(resp.text, "Answer")
  /\ ~HasLine(resp.text, "Action")

\* C7: on a malformed step the log gains the model's text as its one new
\* turn, iteration is unchanged and the loop stays running.
C7_MalformedStep ==
  [][(ModelStep /\ Malformed(LastOf(history')))
       => /\ messages' = Append(messages, [role |-> "model", text |-> LastOf(history').text])
          /\ iteration' = iteration
          /\ pc' = "loop"]_vars

\* A well-formed action on a registered capability.
WellFormedAction(resp) ==
  DispatchedAction(resp) /\ InTools(FunctionName(Invocation(resp)), tools)

\* The observation the i-th action of a query results in.
ResultText(i, resp) ==
  LET r == Eval(Invocation(resp))
  IN IF r.raised
     THEN <<"\n", "Error", ":", " ", "Cannot execute function", " ">>
            \o Invocation(resp) \o <<":", " ">> \o r.text
     ELSE <<"Observation">> \o Str(i) \o <<":", " ">> \o r.text

\* C8: k < ttl well-formed actions on registered capabilities and then an
\* Answer end the query ANSWERED with iteration = k, k dispatches, and a log
\* whose k observation turns are the results of the actions, in order.
C8_ActionsThenAnswer ==
  LET k == Len(history) - 1
  IN (/\ history # <<>>
      /\ k < ttl
      /\ LastOf(history).kind = "text"
      /\ HasLine(LastOf(history).text, "Answer")
      /\ \A i \in 1..k : WellFormedAction(history[i]))
       => /\ LoopState = "ANSWERED"
          /\ iteration = k
          /\ dispatched = k
          /\ Len(messages) = 2 * k + 2
          /\ Turns(messages, "user") = k + 1
          /\ \A i \in 1..k :
               /\ messages[2 * i] = [role |-> "model", text |-> history[i].text]
               /\ messages[2 * i + 1] = [role |-> "user", text |-> ResultText(i, history[i])]
          /\ LastOf(messages) = [role |-> "model", text |-> LastOf(history).text]

\* C8 witness: the specification's scenario, 10 * 3 + 10.
C8_Witness ==
  /\ history = <<RespMultiply, RespAdd, RespAnswer>>
  /\ LoopState = "ANSWERED"
  /\ iteration = 2
  /\ messages[3].text = <<"Observation", "1", ":", " ", "3", "0">>
  /\ messages[5].text = <<"Observation", "2", ":", " ", "4", "0">>

\* C9: the budget check comes before every model call, so no call and no
\* dispatch happens at iteration >= ttl; a model that only ever emits
\* actions ends the query BUDGET_EXHAUSTED after exactly ttl dispatches, and
\* with ttl = 0 the model is never called.
C9_BudgetStopsActions ==
  /\ [][(calls' > calls \/ dispatched' > dispatched) => iteration < ttl]_vars
  /\ []((/\ pc \in {"returned", "raised"}
         /\ \A i \in 1..Len(history) : DispatchedAction(history[i]))
          => (LoopState = "BUDGET_EXHAUSTED" /\ dispatched = ttl /\ calls = ttl))
  /\ [](ttl = 0 => calls = 0)

\* C9 witness: two actions were dispatched under ttl = 2 and the third
\* iterate() stopped the query.
C9_Witness ==
  /\ ttl = 2
  /\ LoopState = "BUDGET_EXHAUSTED"
  /\ dispatched = 2
  /\ Len(history) = 2
  /\ \A i \in 1..2 : DispatchedAction(history[i])

\* C10: an empty response (None or "") ends the loop in MODEL_ERROR; nothing
\* is dispatched, iteration is unchanged, and no model call follows.
C10_EmptyResponseIsModelError ==
  /\ [][(ModelStep /\ LastOf(history') \in {RespEmpty, RespNone})
          => /\ LoopState' = "MODEL_ERROR"
             /\ pc' # "loop"
             /\ dispatched' = dispatched
             /\ invoked' = invoked
             /\ iteration' = iteration]_vars
  /\ [][(history # <<>> /\ LastOf(history) \in {RespEmpty, RespNone})
          => (calls' = calls /\ dispatched' = dispatched)]_vars

\* C10 witness: the model answered an observation with an empty text.
C10_Witness ==
  /\ Len(history) = 2
  /\ LastOf(history) = RespEmpty
  /\ LoopState = "MODEL_ERROR"
  /\ iteration = 1

\* C11: iteration goes up by one on a step that dispatches an action and is
\* unchanged on every other step, so it always equals the number of actions
\* dispatched in the query.
C11_IterationCountsDispatches ==
  /\ [][iteration' - iteration = dispatched' - dispatched]_vars
  /\ [](iteration = dispatched)

\* ------------------------------------------------------- a reused instance
\* query() called again on an instance whose earlier query has ended (by a
\* return or by an exception): the log is set anew, every other field of the
\* instance keeps its value.
QueryAgain ==
  /\ pc \in {"returned", "raised"}
  /\ \E q \in Queries : messages' = <<FirstMessage(tools, q)>>
  /\ pc' = "loop"
  /\ outcome' = "none"
  /\ observation' = <<>>
  /\ calls' = 0
  /\ dispatched' = 0
  /\ invoked' = <<>>
  /\ history' = <<>>
  /\ last_call' = <<>>
  /\ UNCHANGED <<iteration, ttl, tools>>

NextReuse == Next \/ QueryAgain

SpecReuse == Init /\ [][NextReuse]_vars

\* C12: every query, also a second one on a used instance, starts RUNNING
\* with iteration = 0.
C12_QueryStartsAtZero ==
  [][(pc # "loop" /\ pc' = "loop") => iteration' = 0]_vars

\* C13 as stated: no two consecutive turns of the log have the same role and
\* the same text.
C13_NoRepeatedTurn ==
  \A i \in 1..(Len(messages) - 1) :
    ~(messages[i].role = messages[i + 1].role /\ messages[i].text = messages[i + 1].text)

\* C13, amended: no two consecutive turns of the log are both user turns
\* with the same text.
C13_NoRepeatedUserTurn ==
  \A i \in 1..(Len(messages) - 1) :
    ~(/\ messages[i].role = "user"
      /\ messages[i + 1].role = "user"
      /\ messages[i].text = messages[i + 1].text)

\* C13 witness: the same failing call was dispatched twice; its two equal
\* observations are in the log with the model's turn between them.
C13_Witness ==
  \E i \in 1..(Len(messages) - 2) :
    /\ messages[i].role = "user"
    /\ messages[i + 1].role = "model"
    /\ messages[i + 2] = messages[i]

IsPrefix(xs, ys) == Len(xs) <= Len(ys) /\ SubSeq(ys, 1, Len(xs)) = xs

\* C14: during a query the log is append-only, and a step makes it longer
\* by one turn for the model's response and one for the observation of a
\* dispatched action, and by nothing else.
C14_AppendOnly ==
  [][pc = "loop"
       => /\ IsPrefix(messages, messages')
          /\ Len(messages') - Len(messages)
               = (IF ModelStep /\ LastOf(history').kind = "text" THEN 1 ELSE 0)
                 + (dispatched' - dispatched)]_vars

\* The first line of the text whose trimmed form starts with tok, trimmed.
FirstLine(text, tok) ==
  LET lines == Split(text, "\n")
      i == CHOOSE k \in 1..Len(lines) :
             /\ StartsWith(Strip(lines[k]), tok)
             /\ \A j \in 1..(k - 1) : ~StartsWith(Strip(lines[j]), tok)
  IN Strip(lines[i])

\* An action response in the specification's sense: a text with no Answer
\* line and at least one Action line.
ActionResponse(resp) ==
  /\ resp.kind = "text"
  /\ ~Falsy(resp.text)
  /\ ~HasLine(resp.text, "Answer")
  /\ HasLine(resp.text, "Action")

\* C16: an action response whose Action line cannot be parsed (no colon) is
\* handled as a malformed step: the loop goes on, nothing is dispatched and
\* iteration is unchanged; and no step on a text the model returned raises
\* out of iterate().
C16_ParserFailureIsMalformed ==
  /\ [][(/\ ModelStep
         /\ ActionResponse(LastOf(history'))
         /\ ~Contains(FirstLine(LastOf(history').text, "Action"), ":"))
          => (pc' = "loop" /\ dispatched' = dispatched /\ iteration' = iteration)]_vars
  /\ [][(ModelStep /\ LastOf(history').kind = "text") => outcome' # "IndexError"]_vars

\* C17: a model response is classified as an Answer step exactly when it has
\* a line whose trimmed form starts with Answer; a response that mentions
\* Answer only inside another line and has an Action line is dispatched and
\* does not end the loop.
C17_AnswerIsLineBased ==
  /\ [][(ModelStep /\ LastOf(history').kind = "text")
          => (outcome' = "answer" <=> HasLine(LastOf(history').text, "Answer"))]_vars
  /\ [][(ModelStep /\ ActionResponse(LastOf(history'))
          /\ Contains(LastOf(history').text, "Answer"))
          => (dispatched' = dispatched + 1 /\ pc' = "loop")]_vars

\* Everything on a line after its first colon, trimmed.
AfterFirstColon(line) ==
  LET i == CHOOSE k \in 1..Len(line) :
             line[k] = ":" /\ \A j \in 1..(k - 1) : line[j] # ":"
  IN Strip(SubSeq(line, i + 1, Len(line)))

\* C18: a response with no Answer line and at least one line whose trimmed
\* form starts with Action (leading whitespace included) makes exactly one
\* dispatch, of the capability the first such line names; later Action lines
\* are ignored.  (Stated for texts that do not mention Answer at all and whose
\* first Action line has a colon.)
C18_FirstActionLineDispatched ==
  [][(/\ ModelStep
      /\ ActionResponse(LastOf(history'))
      /\ ~Contains(LastOf(history').text, "Answer")
      /\ Contains(FirstLine(LastOf(history').text, "Action"), ":"))
       => /\ dispatched' = dispatched + 1
          /\ FunctionName(last_call')
               = FunctionName(AfterFirstColon(FirstLine(LastOf(history').text, "Action")))]_vars

\* C19: the invocation text handed to act() is everything on the chosen
\* Action line after its first colon; later colons on the line do not cut it
\* short.
C19_InvocationAfterFirstColon ==
  [][(ModelStep /\ dispatched' = dispatched + 1)
       => last_call' = AfterFirstColon(ActionLines(LastOf(history').text)[1])]_vars

\* The tool lists an agent is constructed with here: main()'s, and one that
\* names add_numbers twice.
ToolLists == {ToolList, <<"add_numbers", "add_numbers">>}

\* __init__ with any of these lists: it stores the list as given.
InitConstruct ==
  /\ messages = <<>>
  /\ iteration = 0
  /\ ttl \in 0..MaxTtl
  /\ tools \in ToolLists
  /\ pc = "idle"
  /\ outcome = "none"
  /\ observation = <<>>
  /\ calls = 0
  /\ dispatched = 0
  /\ invoked = <<>>
  /\ history = <<>>
  /\ last_call = <<>>

SpecConstruct == InitConstruct /\ [][Next]_vars

\* C20: every constructed agent's registry has unique capability names
\* (construction with a repeated name fails).
C20_UniqueCapabilityNames ==
  \A i, j \in 1..Len(tools) : tools[i] = tools[j] => i = j

\* C21: over any sequence of action steps, every callable that has run is a
\* capability of the registry; a nested call to an unregistered callable in
\* the argument text of a registered capability does not run it.
C21_OnlyRegisteredInvoked ==
  \A i \in 1..Len(invoked) : InTools(<<invoked[i]>>, tools)
====
